---- MODULE Spec2Model ----
(***************************************************************************)
(* Model of the phenoml-workflow scripts: the .env store writer             *)
(* (create_workflow.py save_to_env), the layered configuration lookup       *)
(* (load_dotenv + os.getenv + CLI flags), the instance-type classifier and  *)
(* status report of check_env.py, and the step order of create_workflow's   *)
(* main.                                                                    *)
(*                                                                         *)
(* Text is a sequence of symbols.  A symbol is a one-character string,      *)
(* except that the name of a recognised configuration key                   *)
(* ("WORKFLOW_ID", ...) is a single symbol.  NL is the newline.  Keys hold  *)
(* neither "=" nor NL and values hold no NL: the store is a flat file of    *)
(* KEY=VALUE lines.                                                         *)
(***************************************************************************)
EXTENDS Naturals, Sequences, FiniteSets

VARIABLES
    exists,      \* whether the file .env exists
    content,     \* the text of .env (<<>> when it does not exist)
    store0,      \* exists and content as they were when the script started
    trace,       \* the save_to_env calls made so far, each with the file before it
    shell,       \* the environment the script is started in
    environ,     \* os.environ of the script, as it runs and when it has ended
    args,        \* the parsed command line of the running script
    pc,          \* where the running script is
    status,      \* check_env.py: what check_env_vars returned
    out,         \* check_env.py: what was printed
    local,       \* create_workflow.py: main's local variables
    remote,      \* create_workflow.py: the remote service, as seen through the SDK
    writes,      \* create_workflow.py: writes of .env begun by this run
    exitCode     \* the script's exit code (0 while it runs)

vars == <<exists, content, store0, trace, shell, environ, args, pc, status, out, local, remote,
          writes, exitCode>>

NL == "\n"
EQ == "="

(***************************************************************************)
(* Text helpers: Python's str.startswith, str.endswith, file.readlines and  *)
(* file.writelines.                                                         *)
(***************************************************************************)
startswith(s, prefix) ==
    /\ Len(prefix) <= Len(s)
    /\ SubSeq(s, 1, Len(prefix)) = prefix

endswith(s, suffix) ==
    /\ Len(suffix) <= Len(s)
    /\ SubSeq(s, Len(s) - Len(suffix) + 1, Len(s)) = suffix

\* file.readlines(): the text cut after each newline; an unterminated rest is
\* the last line.
readlines(s) ==
    LET ends == {i \in 1..Len(s) : s[i] = NL \/ i = Len(s)}
        endOf(j) == CHOOSE i \in ends : Cardinality({x \in ends : x <= i}) = j
    IN  [j \in 1..Cardinality(ends) |->
            SubSeq(s, IF j = 1 THEN 1 ELSE endOf(j - 1) + 1, endOf(j))]

RECURSIVE writelines(_)
writelines(lines) ==
    IF lines = <<>> THEN <<>> ELSE Head(lines) \o writelines(Tail(lines))

\* f"{key}={value}\n"
FormatLine(key, value) == key \o <<EQ>> \o value \o <<NL>>

\* Mutants of the for loop: one that tests startswith(key) without the "=",
\* one whose test never succeeds.
FirstMatchBarePrefix(lines, key) ==
    IF \E i \in 1..Len(lines) : startswith(lines[i], key)
    THEN CHOOSE i \in 1..Len(lines) :
            /\ startswith(lines[i], key)
            /\ \A j \in 1..(i - 1) : ~startswith(lines[j], key)
    ELSE 0

FirstMatchNever(lines, key) == 0

\* The for loop of save_to_env: the index of the first line that starts with
\* "key=", or 0 when there is none.
FirstMatch(lines, key) ==
    IF \E i \in 1..Len(lines) : startswith(lines[i], key \o <<EQ>>)
    THEN CHOOSE i \in 1..Len(lines) :
            /\ startswith(lines[i], key \o <<EQ>>)
            /\ \A j \in 1..(i - 1) : ~startswith(lines[j], key \o <<EQ>>)
    ELSE 0

\* Mutant of the append branch: the unterminated last line is left as it is.
AppendLineNoFix(lines, key, value) == Append(lines, FormatLine(key, value))

\* The branch taken when no line matched: a newline after an unterminated last
\* line, then the new line.
AppendLine(lines, key, value) ==
    LET fixed == IF lines # <<>> /\ ~endswith(lines[Len(lines)], <<NL>>)
                 THEN Append(lines, <<NL>>)
                 ELSE lines
    IN  Append(fixed, FormatLine(key, value))

\* save_to_env(key, value) on a file that is there (fileExists) with text
\* `text`, or that is not: the text of the file afterwards.
save_to_env(fileExists, text, key, value) ==
    IF ~fileExists
    THEN FormatLine(key, value)
    ELSE LET lines == readlines(text)
             i     == FirstMatch(lines, key)
         IN  IF i # 0
             THEN writelines([lines EXCEPT ![i] = FormatLine(key, value)])
             ELSE writelines(AppendLine(lines, key, value))

(***************************************************************************)
(* python-dotenv, as the scripts use it: load_dotenv() without override.    *)
(* A line binds the text before its first "=" to the text after it; a      *)
(* later binding of a key replaces an earlier one; a key that os.environ    *)
(* already holds (even as the empty string) is left alone.  A line without  *)
(* "=" (a comment, a blank line) binds nothing.  The texts of the model     *)
(* hold no quotes, blanks or "${": what python-dotenv does with those is    *)
(* not modelled.  os.environ is modelled on the keys the script reads.      *)
(***************************************************************************)
IndexOf(s, sym) ==
    IF \E i \in 1..Len(s) : s[i] = sym
    THEN CHOOSE i \in 1..Len(s) : s[i] = sym /\ \A j \in 1..(i - 1) : s[j] # sym
    ELSE 0

StripNL(line) ==
    IF endswith(line, <<NL>>) THEN SubSeq(line, 1, Len(line) - 1) ELSE line

Binds(line, key) ==
    LET l == StripNL(line)
        i == IndexOf(l, EQ)
    IN  i # 0 /\ SubSeq(l, 1, i - 1) = key

BoundValue(line) ==
    LET l == StripNL(line)
        i == IndexOf(l, EQ)
    IN  SubSeq(l, i + 1, Len(l))

Unset == [set |-> FALSE, val |-> <<>>]
Val(v) == [set |-> TRUE, val |-> v]

\* dotenv_values(...)[key]: the value of the last line that binds key.
dotenv_get(fileExists, text, key) ==
    LET lines == readlines(text)
        hits  == {i \in 1..Len(lines) : Binds(lines[i], key)}
    IN  IF ~fileExists \/ hits = {}
        THEN Unset
        ELSE Val(BoundValue(lines[CHOOSE i \in hits : \A j \in hits : j <= i]))

load_dotenv(e, fileExists, text) ==
    [k \in DOMAIN e |->
        IF e[k].set THEN e[k] ELSE dotenv_get(fileExists, text, <<k>>)]

\* os.getenv(key): None is Unset.  bool(os.getenv(key)) and `x or y`.
Truthy(v) == v.set /\ v.val # <<>>
Or(a, b) == IF Truthy(a) THEN a ELSE b

(***************************************************************************)
(* check_env.py                                                             *)
(***************************************************************************)
Marker == <<"e", "x", "p", "e", "r", "i", "m", "e", "n", "t">>

\* str.lower, on the letters the model's texts hold in upper case.
LowerChar(c) ==
    CASE c = "E" -> "e" [] c = "X" -> "x" [] c = "P" -> "p" [] c = "R" -> "r"
      [] c = "I" -> "i" [] c = "M" -> "m" [] c = "N" -> "n" [] c = "T" -> "t"
      [] c = "U" -> "u" [] c = "O" -> "o"
      [] OTHER -> c

lower(s) == [i \in 1..Len(s) |-> LowerChar(s[i])]

\* Python's `t in s` on strings.
Contains(s, t) ==
    \E i \in 1..(Len(s) + 1) :
        i + Len(t) - 1 <= Len(s) /\ SubSeq(s, i, i + Len(t) - 1) = t

\* os.getenv(key, "")
GetenvOrEmpty(e, key) == IF e[key].set THEN e[key].val ELSE <<>>

\* Mutant of get_instance_type: the URL is not lower-cased before the test.
get_instance_type_case_sensitive(e) ==
    LET base_url == GetenvOrEmpty(e, "PHENOML_BASE_URL")
    IN  IF base_url = <<>> THEN "unknown"
        ELSE IF Contains(base_url, Marker) THEN "shared_experiment"
        ELSE "dedicated"

get_instance_type(e) ==
    LET base_url == GetenvOrEmpty(e, "PHENOML_BASE_URL")
    IN  IF base_url = <<>> THEN "unknown"
        ELSE IF Contains(lower(base_url), Marker) THEN "shared_experiment"
        ELSE "dedicated"

CoreKeys == {"PHENOML_USERNAME", "PHENOML_PASSWORD", "PHENOML_BASE_URL"}
FhirKeys ==
    {"FHIR_PROVIDER_BASE_URL", "FHIR_PROVIDER_CLIENT_ID",
     "FHIR_PROVIDER_CLIENT_SECRET"}
GeneratedKeys == {"FHIR_PROVIDER_ID", "WORKFLOW_ID"}

\* Mutants of check_env_vars: FHIR_PROVIDER_ID without `or is_shared`; a
\* client secret reported present only when it differs from the client id.
check_env_vars_no_default(e) ==
    LET instance_type == get_instance_type(e)
    IN  [core_credentials |-> [k \in CoreKeys |-> Truthy(e[k])],
         fhir_credentials |-> [k \in FhirKeys |-> Truthy(e[k])],
         generated_ids |-> [k \in GeneratedKeys |-> Truthy(e[k])],
         instance_type |-> instance_type]

check_env_vars_compares_secrets(e) ==
    [core_credentials |-> [k \in CoreKeys |-> Truthy(e[k])],
     fhir_credentials |->
        [k \in FhirKeys |->
            IF k = "FHIR_PROVIDER_CLIENT_SECRET"
            THEN Truthy(e[k]) /\ e[k] # e["FHIR_PROVIDER_CLIENT_ID"]
            ELSE Truthy(e[k])],
     generated_ids |->
        [k \in GeneratedKeys |->
            Truthy(e[k])
            \/ (k = "FHIR_PROVIDER_ID"
                /\ get_instance_type(e) = "shared_experiment")],
     instance_type |-> get_instance_type(e)]

\* check_env_vars, after its load_dotenv: e is os.environ as loaded.
check_env_vars(e) ==
    LET instance_type == get_instance_type(e)
        is_shared     == instance_type = "shared_experiment"
    IN  [core_credentials |-> [k \in CoreKeys |-> Truthy(e[k])],
         fhir_credentials |-> [k \in FhirKeys |-> Truthy(e[k])],
         generated_ids |->
            [k \in GeneratedKeys |->
                IF k = "FHIR_PROVIDER_ID"
                THEN Truthy(e[k]) \/ is_shared
                ELSE Truthy(e[k])],
         instance_type |-> instance_type]

\* all(d.values())
All(d) == \A k \in DOMAIN d : d[k]

NoText ==
    [banner |-> "none", core_marks |-> [k \in {} |-> FALSE],
     core_warning |-> FALSE, fhir_section |-> "none",
     fhir_marks |-> [k \in {} |-> FALSE], fhir_warning |-> FALSE,
     provider_id_mark |-> FALSE, provider_id_default |-> FALSE,
     workflow_id_mark |-> FALSE, hint_provider |-> FALSE,
     hint_workflow |-> FALSE, overall |-> "none", json_dump |-> FALSE]

\* print_status(status, verbose): what the text shows.  e is os.environ, which
\* the shared branch of "Generated IDs" reads again.
print_status(st, verbose, e) ==
    LET is_shared    == st.instance_type = "shared_experiment"
        is_dedicated == st.instance_type = "dedicated"
        is_unknown   == st.instance_type = "unknown"
        core_ready   == All(st.core_credentials)
        fhir_ready   == All(st.fhir_credentials)
    IN  [banner |-> IF is_shared THEN "shared"
                    ELSE IF is_dedicated THEN "dedicated" ELSE "unknown",
         core_marks |-> st.core_credentials,
         core_warning |-> ~core_ready,
         fhir_section |-> IF is_shared THEN "not_required"
                          ELSE IF is_unknown THEN "depends" ELSE "required",
         fhir_marks |-> IF is_shared THEN [k \in {} |-> FALSE]
                        ELSE st.fhir_credentials,
         fhir_warning |-> ~is_shared /\ ~is_unknown /\ ~fhir_ready,
         provider_id_mark |->
            IF is_shared THEN TRUE ELSE st.generated_ids["FHIR_PROVIDER_ID"],
         provider_id_default |-> is_shared /\ ~Truthy(e["FHIR_PROVIDER_ID"]),
         workflow_id_mark |-> st.generated_ids["WORKFLOW_ID"],
         hint_provider |-> is_dedicated /\ ~st.generated_ids["FHIR_PROVIDER_ID"],
         hint_workflow |-> ~st.generated_ids["WORKFLOW_ID"],
         overall |->
            IF is_unknown THEN "set_base_url"
            ELSE IF is_shared
                 THEN IF core_ready THEN "shared_ready" ELSE "add_core"
                 ELSE IF core_ready /\ fhir_ready THEN "dedicated_ready"
                      ELSE IF core_ready THEN "core_ready_add_fhir"
                      ELSE "add_credentials",
         json_dump |-> verbose]

\* Mutant of the exit test: PHENOML_BASE_URL is left out of it.
ExitOfNoUrl(st) ==
    IF st.core_credentials["PHENOML_USERNAME"]
       /\ st.core_credentials["PHENOML_PASSWORD"]
    THEN 0 ELSE 1

\* main's last lines: sys.exit(1) unless every core credential is there.
ExitOf(st) == IF All(st.core_credentials) THEN 0 ELSE 1

(***************************************************************************)
(* The scripts' inputs, bounded.                                            *)
(***************************************************************************)
MaxLines == 2          \* lines of a store file the store writer starts from
MaxOps == 2            \* save_to_env calls after an arbitrary store file
MaxOpsFromEmpty == 3   \* save_to_env calls after a missing or empty store file

\* Keys and values the store writer is called with; "A" is a prefix of "AB".
StoreKeys == {<<"A">>, <<"A", "B">>, <<"B">>}
StoreValues == {<<"1">>, <<EQ, "2">>}

\* Lines a store file may hold before the writer runs: any KEY=VALUE line and
\* a comment line.
PriorLines ==
    {FormatLine(k, v) : k \in StoreKeys, v \in StoreValues} \cup {<<"#", NL>>}

\* Files of up to MaxLines such lines, the last of them with or without its
\* newline.
PriorFiles ==
    LET whole == {writelines(ls) :
                    ls \in UNION {[1..m -> PriorLines] : m \in 0..MaxLines}}
    IN  whole \cup {SubSeq(f, 1, Len(f) - 1) : f \in whole \ {<<>>}}

CheckKeys ==
    {"PHENOML_USERNAME", "PHENOML_PASSWORD", "PHENOML_BASE_URL",
     "FHIR_PROVIDER_BASE_URL", "FHIR_PROVIDER_CLIENT_ID",
     "FHIR_PROVIDER_CLIENT_SECRET", "FHIR_PROVIDER_ID", "WORKFLOW_ID"}

\* Values of the variables a specification does not use.
NoEnv == [k \in CheckKeys |-> Unset]
NoArgs == [json |-> FALSE, verbose |-> FALSE]
NoStatus ==
    [core_credentials |-> [k \in {} |-> FALSE],
     fhir_credentials |-> [k \in {} |-> FALSE],
     generated_ids |-> [k \in {} |-> FALSE],
     instance_type |-> "unknown"]
NoOut == [printed |-> "nothing", json |-> NoStatus, text |-> NoText]
NoLocal ==
    [name |-> Unset, instructions |-> Unset, sample_data_str |-> Unset,
     provider_id |-> Unset, dynamic_generation |-> FALSE, verbose |-> FALSE,
     workflow_id |-> Unset, save |-> "none"]
NoRemote == [calls |-> 0, created |-> 0, returned |-> "none"]

(***************************************************************************)
(* SpecStore: save_to_env called again and again on one store file.         *)
(***************************************************************************)
InitStore ==
    /\ exists \in BOOLEAN
    /\ content \in (IF exists THEN PriorFiles ELSE {<<>>})
    /\ store0 = [exists |-> exists, content |-> content]
    /\ trace = <<>>
    /\ shell = NoEnv
    /\ environ = NoEnv
    /\ args = NoArgs
    /\ pc = "store"
    /\ status = NoStatus
    /\ out = NoOut
    /\ local = NoLocal
    /\ remote = NoRemote
    /\ writes = 0
    /\ exitCode = 0

\* The text the first call found (<<>> for a missing file).
StartContent == store0.content

Save(k, v) ==
    /\ pc = "store"
    /\ Len(trace) < (IF StartContent = <<>> THEN MaxOpsFromEmpty ELSE MaxOps)
    /\ content' = save_to_env(exists, content, k, v)
    /\ exists' = TRUE
    /\ trace' = Append(trace, [key |-> k, value |-> v, existed |-> exists,
                               pre |-> content])
    /\ UNCHANGED <<store0, shell, environ, args, pc, status, out, local, remote,
                   writes, exitCode>>

NextStore == \E k \in StoreKeys, v \in StoreValues : Save(k, v)

SpecStore == InitStore /\ [][NextStore]_vars

\* The last call and the one before it.
Last == trace[Len(trace)]
Prev == trace[Len(trace) - 1]

\* Where a store text binds key, as an environment-file loader reads it.
BindingLines(text, key) ==
    {i \in 1..Len(readlines(text)) : Binds(readlines(text)[i], key)}

Newlines(line) == Cardinality({i \in 1..Len(line) : line[i] = NL})

\* C1: after save_to_env(K, V), whatever the store held before (a missing
\* file, an unterminated last line, one or more lines for K), a fresh load of
\* the store in which the last line that defines a key wins yields V for K.
C1_RoundTrip ==
    trace # <<>> => dotenv_get(exists, content, Last.key) = Val(Last.value)

\* C2: when the store has a line for K, save_to_env(K, V1) then
\* save_to_env(K, V2) leaves the first line of K where it was, now K=V2, and
\* every other line as it was (so the number of lines, and what every other
\* key is bound to, are unchanged); a line of a key J that K is a prefix of is
\* not taken for a line of K.
C2_OverwriteFrame ==
    (/\ Len(trace) >= 2
     /\ Prev.key = Last.key
     /\ Prev.existed
     /\ BindingLines(Prev.pre, Last.key) # {})
    => LET before == readlines(Prev.pre)
           after  == readlines(content)
           hits   == BindingLines(Prev.pre, Last.key)
           i      == CHOOSE h \in hits : \A g \in hits : h <= g
       IN  /\ Len(after) = Len(before)
           /\ after[i] = FormatLine(Last.key, Last.value)
           /\ \A j \in 1..Len(before) : j # i => after[j] = before[j]
           /\ \A J \in StoreKeys \ {Last.key} :
                /\ BindingLines(content, J) = BindingLines(Prev.pre, J)
                /\ dotenv_get(TRUE, content, J) = dotenv_get(TRUE, Prev.pre, J)

\* C2's case: K = "A" is written twice with different values into a store
\* whose first line is for "AB" and whose second line is for "A".
C2_Witness ==
    /\ Len(trace) >= 2
    /\ Prev.key = <<"A">>
    /\ Last.key = <<"A">>
    /\ Prev.value # Last.value
    /\ Prev.existed
    /\ BindingLines(Prev.pre, <<"A", "B">>) = {1}
    /\ BindingLines(Prev.pre, <<"A">>) = {2}
    /\ dotenv_get(TRUE, content, <<"A">>) = Val(Last.value)

\* C8: starting from a missing or empty store, after any sequence of
\* save_to_env calls the store holds at most one line per key; and a second
\* save_to_env(K, V) with the same K and V leaves the file exactly as the first
\* left it.
C8_IdempotentUnique ==
    /\ StartContent = <<>> =>
          \A k \in StoreKeys : Cardinality(BindingLines(content, k)) <= 1
    /\ (Len(trace) >= 2 /\ Prev.key = Last.key /\ Prev.value = Last.value)
          => content = Last.pre

\* C8's case: from a missing or empty store, one key is written, then another
\* key twice with the same value.
C8_Witness ==
    /\ Len(trace) >= 3
    /\ StartContent = <<>>
    /\ Prev.key = Last.key
    /\ Prev.value = Last.value
    /\ trace[1].key # Last.key
    /\ Len(readlines(content)) = 2

\* C9: save_to_env(K, V) on a missing or empty file leaves exactly the line
\* K=V; when a non-empty store has no line for K the new line comes after all
\* the old text, after a newline if that text did not end with one; and every
\* line the call wrote or rewrote ends with exactly one newline.
C9_CreateAppendShape ==
    trace # <<>> =>
        LET before == readlines(Last.pre)
            after  == readlines(content)
            line   == FormatLine(Last.key, Last.value)
        IN  /\ Last.pre = <<>> => content = line
            /\ (Last.pre # <<>> /\ BindingLines(Last.pre, Last.key) = {}) =>
                  content = Last.pre
                            \o (IF Last.pre[Len(Last.pre)] = NL THEN <<>> ELSE <<NL>>)
                            \o line
            /\ \A j \in 1..Len(after) :
                  (j > Len(before) \/ after[j] # before[j]) =>
                      /\ endswith(after[j], <<NL>>)
                      /\ Newlines(after[j]) = 1

\* C9's case: a key is appended to a store whose last line has no newline.
C9_Witness ==
    /\ trace # <<>>
    /\ Last.existed
    /\ Last.pre # <<>>
    /\ Last.pre[Len(Last.pre)] # NL
    /\ BindingLines(Last.pre, Last.key) = {}
    /\ Len(readlines(content)) = Len(readlines(Last.pre)) + 1

\* Texts of the model: base URLs and secrets.
UrlShared == <<"/">> \o Marker \o <<".">>
UrlSharedUpper == <<"E", "X", "P", "E", "R", "I", "M", "E", "N", "T">>
UrlSharedMixed == <<"x", "E", "x", "P", "e", "R", "i", "M", "e", "N", "t">>
UrlDedicated == <<"a", "c", "m", "e">>
UrlCutShort == <<"e", "x", "p", "e", "r", "i", "m", "e", "n">>
S1 == <<"s", "1">>
S2 == <<"s", "2">>

\* What the shell may hold for a key.
ShellValues(k) ==
    CASE k = "PHENOML_BASE_URL" ->
            {Unset, Val(<<>>), Val(UrlSharedUpper), Val(UrlDedicated),
             Val(UrlCutShort)}
      [] k = "FHIR_PROVIDER_ID" -> {Unset, Val(<<>>), Val(S1)}
      [] k \in {"PHENOML_PASSWORD", "FHIR_PROVIDER_CLIENT_SECRET"} ->
            {Unset, Val(S1), Val(S2)}
      [] OTHER -> {Unset, Val(S1)}

\* The store files check_env.py is run against (the missing file apart).
CheckStores ==
    {FormatLine(<<"PHENOML_BASE_URL">>, UrlSharedMixed),
     FormatLine(<<"FHIR_PROVIDER_ID">>, S1)
        \o FormatLine(<<"PHENOML_USERNAME">>, S2),
     FormatLine(<<"PHENOML_BASE_URL">>, UrlShared)
        \o FormatLine(<<"PHENOML_BASE_URL">>, UrlDedicated)
        \o FormatLine(<<"PHENOML_PASSWORD">>, S2)}

(***************************************************************************)
(* SpecEnv: one run of check_env.py, in any shell, against any of the store *)
(* files, with any flags.                                                   *)
(***************************************************************************)
InitEnv ==
    /\ exists \in BOOLEAN
    /\ content \in (IF exists THEN CheckStores ELSE {<<>>})
    /\ store0 = [exists |-> exists, content |-> content]
    /\ trace = <<>>
    /\ \E u \in ShellValues("PHENOML_USERNAME"),
          p \in ShellValues("PHENOML_PASSWORD"),
          b \in ShellValues("PHENOML_BASE_URL"),
          fb \in ShellValues("FHIR_PROVIDER_BASE_URL"),
          fc \in ShellValues("FHIR_PROVIDER_CLIENT_ID"),
          fs \in ShellValues("FHIR_PROVIDER_CLIENT_SECRET"),
          fi \in ShellValues("FHIR_PROVIDER_ID"),
          w \in ShellValues("WORKFLOW_ID") :
            shell = [PHENOML_USERNAME |-> u, PHENOML_PASSWORD |-> p,
                     PHENOML_BASE_URL |-> b, FHIR_PROVIDER_BASE_URL |-> fb,
                     FHIR_PROVIDER_CLIENT_ID |-> fc,
                     FHIR_PROVIDER_CLIENT_SECRET |-> fs,
                     FHIR_PROVIDER_ID |-> fi, WORKFLOW_ID |-> w]
    /\ environ = shell
    /\ args \in [json : BOOLEAN, verbose : BOOLEAN]
    /\ pc = "start"
    /\ status = NoStatus
    /\ out = NoOut
    /\ local = NoLocal
    /\ remote = NoRemote
    /\ writes = 0
    /\ exitCode = 0

\* main of check_env.py: check_env_vars (its load_dotenv first), the report
\* printed as JSON or as text, the exit code.  The store file is the one
\* load_dotenv is pointed at: args.env_file, or else .env.
CheckEnvMain ==
    /\ pc = "start"
    /\ LET e  == load_dotenv(environ, exists, content)
           st == check_env_vars(e)
       IN  /\ environ' = e
           /\ status' = st
           /\ out' = IF args.json
                     THEN [printed |-> "json", json |-> st, text |-> NoText]
                     ELSE [printed |-> "text",
                           json |-> IF args.verbose THEN st ELSE NoStatus,
                           text |-> print_status(st, args.verbose, e)]
           /\ exitCode' = ExitOf(st)
    /\ pc' = "exited"
    /\ UNCHANGED <<exists, content, store0, trace, shell, args, local, remote,
                   writes>>

NextEnv == CheckEnvMain

SpecEnv == InitEnv /\ [][NextEnv]_vars

(***************************************************************************)
(* Claims about check_env.py                                                *)
(***************************************************************************)
UpperChar(c) ==
    CASE c = "e" -> "E" [] c = "x" -> "X" [] c = "p" -> "P" [] c = "r" -> "R"
      [] c = "i" -> "I" [] c = "m" -> "M" [] c = "n" -> "N" [] c = "t" -> "T"

\* s holds the letters of "experiment" in a row, each in either case.
HasMarkerAnyCase(s) ==
    \E i \in 1..Len(s) :
        /\ i + Len(Marker) - 1 <= Len(s)
        /\ \A j \in 1..Len(Marker) :
              s[i + j - 1] \in {Marker[j], UpperChar(Marker[j])}

\* The deployment mode of a resolved environment, as the specification words it.
ModeOf(e) ==
    IF ~Truthy(e["PHENOML_BASE_URL"]) THEN "unknown"
    ELSE IF HasMarkerAnyCase(e["PHENOML_BASE_URL"].val) THEN "shared_experiment"
    ELSE "dedicated"

\* Some source (the shell, the store) yields a non-empty value for k.
Supplied(k) == Truthy(shell[k]) \/ Truthy(dotenv_get(exists, content, <<k>>))

CoreComplete == \A k \in CoreKeys : Truthy(environ[k])

\* C4: the instance type is "shared_experiment" (shared) for every base URL
\* that holds "experiment" in any letter case, "dedicated" for every other
\* non-empty base URL, "unknown" for an empty or unset one: a function of the
\* resolved PHENOML_BASE_URL alone.
C4_Classifier ==
    pc = "exited" => status.instance_type = ModeOf(environ)

\* C4's case: the base URL comes from the store, in mixed case.
C4_Witness ==
    /\ pc = "exited"
    /\ ~shell["PHENOML_BASE_URL"].set
    /\ environ["PHENOML_BASE_URL"] = Val(UrlSharedMixed)
    /\ status.instance_type = "shared_experiment"

\* Two resolved environments agree on which keys are non-empty and on the
\* deployment mode.
Agree(e1, e2) ==
    /\ \A k \in CheckKeys : Truthy(e1[k]) = Truthy(e2[k])
    /\ ModeOf(e1) = ModeOf(e2)

\* C5: the report holds booleans and an instance type of the fixed set and
\* nothing else, the JSON printed is that report, and a configuration that
\* differs from this one in one shell variable or in the store file, and
\* agrees with it on which keys are non-empty and on the deployment mode, gets
\* the same report.  (Two configurations that agree so are joined by a chain
\* of such single changes, each of which agrees with both.)
C5_NoSecretDisclosure ==
    pc = "exited" =>
        /\ \A k \in CheckKeys : \A v \in ShellValues(k) :
              LET e2 == load_dotenv([shell EXCEPT ![k] = v], exists, content)
              IN  Agree(environ, e2) => check_env_vars(e2) = status
        /\ \A tx \in CheckStores \cup {<<>>} :
              LET e2 == load_dotenv(shell, tx # <<>>, tx)
              IN  Agree(environ, e2) => check_env_vars(e2) = status
        /\ DOMAIN status =
              {"core_credentials", "fhir_credentials", "generated_ids",
               "instance_type"}
        /\ DOMAIN status.core_credentials = CoreKeys
        /\ DOMAIN status.fhir_credentials = FhirKeys
        /\ DOMAIN status.generated_ids = GeneratedKeys
        /\ \A k \in CoreKeys : status.core_credentials[k] \in BOOLEAN
        /\ \A k \in FhirKeys : status.fhir_credentials[k] \in BOOLEAN
        /\ \A k \in GeneratedKeys : status.generated_ids[k] \in BOOLEAN
        /\ status.instance_type \in {"shared_experiment", "dedicated", "unknown"}
        /\ out.printed = "json" => out.json = status
        /\ (out.printed = "text" /\ args.verbose) => out.json = status

\* C5's case: a password and a client secret are set, and the report is
\* printed as JSON.
C5_Witness ==
    /\ pc = "exited"
    /\ environ["PHENOML_PASSWORD"] = Val(S2)
    /\ environ["FHIR_PROVIDER_CLIENT_SECRET"] = Val(S1)
    /\ environ["FHIR_PROVIDER_CLIENT_ID"] = Val(S1)
    /\ out.printed = "json"
    /\ out.json.core_credentials["PHENOML_PASSWORD"]
    /\ out.json.fhir_credentials["FHIR_PROVIDER_CLIENT_SECRET"]

\* C6: in shared mode the provider credentials are shown as not required, their
\* absence gives no missing-credentials warning, status or exit code, and
\* FHIR_PROVIDER_ID is reported present whether or not a source supplies it; in
\* dedicated and unknown mode FHIR_PROVIDER_ID is reported present only if a
\* source supplies a non-empty value.
C6_SharedGating ==
    pc = "exited" =>
        /\ status.instance_type = "shared_experiment" =>
              /\ status.generated_ids["FHIR_PROVIDER_ID"]
              /\ exitCode = (IF CoreComplete THEN 0 ELSE 1)
              /\ out.printed = "text" =>
                    /\ out.text.fhir_section = "not_required"
                    /\ ~out.text.fhir_warning
                    /\ out.text.provider_id_mark
                    /\ ~out.text.hint_provider
                    /\ out.text.overall =
                          (IF CoreComplete THEN "shared_ready" ELSE "add_core")
        /\ status.instance_type \in {"dedicated", "unknown"} =>
              /\ status.generated_ids["FHIR_PROVIDER_ID"]
                    => Supplied("FHIR_PROVIDER_ID")
              /\ status.generated_ids["FHIR_PROVIDER_ID"]
                    = Truthy(environ["FHIR_PROVIDER_ID"])
              /\ out.printed = "text" =>
                    out.text.provider_id_mark = Truthy(environ["FHIR_PROVIDER_ID"])

\* C6's case: shared mode, core credentials complete, no source supplies a
\* provider credential or FHIR_PROVIDER_ID, text output.
C6_Witness ==
    /\ pc = "exited"
    /\ status.instance_type = "shared_experiment"
    /\ CoreComplete
    /\ \A k \in FhirKeys \cup {"FHIR_PROVIDER_ID"} : ~Supplied(k)
    /\ out.printed = "text"
    /\ out.text.fhir_section = "not_required"
    /\ out.text.provider_id_default
    /\ status.generated_ids["FHIR_PROVIDER_ID"]
    /\ exitCode = 0

\* C7: check_env.py exits non-zero exactly when one of PHENOML_USERNAME,
\* PHENOML_PASSWORD, PHENOML_BASE_URL is absent (resolves to nothing or to the
\* empty string), with --json and without; with PHENOML_BASE_URL absent the
\* instance type is "unknown" and the exit code non-zero; with the core
\* credentials complete the exit code is 0 whatever the provider credentials.
C7_CoreGate ==
    pc = "exited" =>
        /\ exitCode \in {0, 1}
        /\ exitCode = 1 <=> \E k \in CoreKeys : ~Truthy(environ[k])
        /\ ~Truthy(environ["PHENOML_BASE_URL"]) =>
              status.instance_type = "unknown" /\ exitCode = 1
        /\ CoreComplete => exitCode = 0

\* C7's case: PHENOML_BASE_URL is supplied by no source, every other key is
\* set, and the run is a --json run that exits 1.
C7_Witness ==
    /\ pc = "exited"
    /\ args.json
    /\ ~Supplied("PHENOML_BASE_URL")
    /\ \A k \in CheckKeys \ {"PHENOML_BASE_URL"} : Truthy(environ[k])
    /\ status.instance_type = "unknown"
    /\ exitCode = 1

(***************************************************************************)
(* create_workflow.py                                                       *)
(***************************************************************************)
\* str_to_bool
str_to_bool(s) ==
    lower(s) \in {<<"t", "r", "u", "e">>, <<"1">>, <<"y", "e", "s">>, <<"y">>}

\* os.getenv(key, default)
GetenvOr(e, key, default) == IF e[key].set THEN e[key].val ELSE default

\* Texts of the model: sample data that json.loads takes and refuses, names,
\* instructions, provider ids, the ids the service returns.
JsonObject == <<"{", "}">>
JsonBroken == <<"{">>
IsJson(s) == s = JsonObject
N1 == <<"n", "1">>
N2 == <<"n", "2">>
N3 == <<"n", "3">>
I1 == <<"i", "1">>
P1 == <<"p", "1">>
P2 == <<"p", "2">>
P3 == <<"p", "3">>
WorkflowIds == {<<"w", "1">>, <<"w", "2">>}

\* The store files create_workflow.py is run against (the missing file apart);
\* the last has an unterminated last line.
CreateStores ==
    {FormatLine(<<"WORKFLOW_NAME">>, N3) \o FormatLine(<<"FHIR_PROVIDER_ID">>, P3),
     FormatLine(<<"WORKFLOW_ID">>, <<"w", "0">>)
        \o FormatLine(<<"WORKFLOW_INSTRUCTIONS">>, I1)
        \o FormatLine(<<"WORKFLOW_SAMPLE_DATA">>, JsonBroken),
     FormatLine(<<"WORKFLOW_NAME">>, N3)
        \o FormatLine(<<"WORKFLOW_INSTRUCTIONS">>, I1)
        \o FormatLine(<<"WORKFLOW_SAMPLE_DATA">>, JsonObject)
        \o FormatLine(<<"FHIR_PROVIDER_ID">>, P3)
        \o <<"WORKFLOW_VERBOSE", EQ, "Y", "E", "S">>}

\* Lines 79 to 84: each setting from its flag or else from os.environ.
Resolve(a, e) ==
    [name |-> Or(a.name, e["WORKFLOW_NAME"]),
     instructions |-> Or(a.instructions, e["WORKFLOW_INSTRUCTIONS"]),
     sample_data_str |-> Or(a.sample_data, e["WORKFLOW_SAMPLE_DATA"]),
     dynamic_generation |->
        IF a.dynamic_generation # "none"
        THEN a.dynamic_generation = "true"
        ELSE str_to_bool(GetenvOr(e, "WORKFLOW_DYNAMIC_GENERATION",
                                  <<"t", "r", "u", "e">>)),
     verbose |->
        IF a.verbose # "none"
        THEN a.verbose = "true"
        ELSE str_to_bool(GetenvOr(e, "WORKFLOW_VERBOSE",
                                  <<"f", "a", "l", "s", "e">>)),
     provider_id |-> Or(a.provider_id, e["FHIR_PROVIDER_ID"]),
     workflow_id |-> Unset,
     save |-> "none"]

\* Mutant of the validation: the provider id is not looked at.
MissingRequiredNoProvider(l) ==
    IF ~Truthy(l.name) THEN "name"
    ELSE IF ~Truthy(l.instructions) THEN "instructions"
    ELSE IF ~Truthy(l.sample_data_str) THEN "sample_data"
    ELSE "none"

\* Lines 87 to 105: the first required setting that is missing.
MissingRequired(l) ==
    IF ~Truthy(l.name) THEN "name"
    ELSE IF ~Truthy(l.instructions) THEN "instructions"
    ELSE IF ~Truthy(l.sample_data_str) THEN "sample_data"
    ELSE IF ~Truthy(l.provider_id) THEN "provider_id"
    ELSE "none"

(***************************************************************************)
(* SpecCreate: one run of create_workflow.py, step by step.                 *)
(***************************************************************************)
InitCreate ==
    /\ exists \in BOOLEAN
    /\ content \in (IF exists THEN CreateStores ELSE {<<>>})
    /\ store0 = [exists |-> exists, content |-> content]
    /\ trace = <<>>
    /\ \E n \in {Unset, Val(<<>>), Val(N2)},
          i \in {Unset, Val(I1)},
          d \in {Unset, Val(JsonObject)},
          f \in {Unset, Val(<<>>), Val(P2)},
          v \in {Unset, Val(<<"T", "r", "u", "e">>)} :
            shell = [WORKFLOW_NAME |-> n, WORKFLOW_INSTRUCTIONS |-> i,
                     WORKFLOW_SAMPLE_DATA |-> d, FHIR_PROVIDER_ID |-> f,
                     WORKFLOW_VERBOSE |-> v,
                     WORKFLOW_DYNAMIC_GENERATION |-> Unset]
    /\ environ = shell
    /\ args \in [name : {Unset, Val(<<>>), Val(N1)},
                 instructions : {Unset, Val(I1)},
                 sample_data : {Unset, Val(JsonObject), Val(JsonBroken)},
                 provider_id : {Unset, Val(P1)},
                 dynamic_generation : {"none", "false"},
                 verbose : {"none"}]
    /\ pc = "start"
    /\ status = NoStatus
    /\ out = NoOut
    /\ local = NoLocal
    /\ remote = NoRemote
    /\ writes = 0
    /\ exitCode = 0

\* sys.exit(code)
Exit(code) ==
    /\ pc' = "exited"
    /\ exitCode' = code

\* Lines 76 to 84.
LoadAndResolve ==
    /\ pc = "start"
    /\ environ' = load_dotenv(environ, exists, content)
    /\ local' = Resolve(args, environ')
    /\ pc' = "validate"
    /\ UNCHANGED <<exists, content, store0, trace, shell, args, status, out,
                   remote, writes, exitCode>>

\* Lines 87 to 105.
Validate ==
    /\ pc = "validate"
    /\ \/ /\ MissingRequired(local) # "none"
          /\ Exit(1)
       \/ /\ MissingRequired(local) = "none"
          /\ pc' = "parse"
          /\ UNCHANGED exitCode
    /\ UNCHANGED <<exists, content, store0, trace, shell, environ, args, status,
                   out, local, remote, writes>>

\* Lines 108 to 112.
ParseSample ==
    /\ pc = "parse"
    /\ \/ /\ ~IsJson(local.sample_data_str.val)
          /\ Exit(1)
       \/ /\ IsJson(local.sample_data_str.val)
          /\ pc' = "client"
          /\ UNCHANGED exitCode
    /\ UNCHANGED <<exists, content, store0, trace, shell, environ, args, status,
                   out, local, remote, writes>>

\* Lines 116 to 126: the SDK's Client(...) returns or raises.
InitClient ==
    /\ pc = "client"
    /\ \/ /\ pc' = "create"
          /\ UNCHANGED exitCode
       \/ Exit(1)
    /\ UNCHANGED <<exists, content, store0, trace, shell, environ, args, status,
                   out, local, remote, writes>>

\* Lines 137 to 148: client.workflows.create returns a workflow.
CreateReturns(w) ==
    /\ pc = "create"
    /\ remote' = [calls |-> remote.calls + 1, created |-> remote.created + 1,
                  returned |-> "ok"]
    /\ local' = [local EXCEPT !.workflow_id = Val(w)]
    /\ pc' = "save"
    /\ UNCHANGED <<exists, content, store0, trace, shell, environ, args, status,
                   out, writes, exitCode>>

\* Lines 137 to 144 and 155 to 159: client.workflows.create raises, the
\* service having created the workflow (serverDid) or not.
CreateRaises(serverDid) ==
    /\ pc = "create"
    /\ remote' = [calls |-> remote.calls + 1,
                  created |-> remote.created + (IF serverDid THEN 1 ELSE 0),
                  returned |-> "error"]
    /\ Exit(1)
    /\ UNCHANGED <<exists, content, store0, trace, shell, environ, args, status,
                   out, local, writes>>

\* Lines 151 to 153: save_to_env returns, and main ends.
SaveReturns ==
    /\ pc = "save"
    /\ content' = save_to_env(exists, content, <<"WORKFLOW_ID">>,
                              local.workflow_id.val)
    /\ exists' = TRUE
    /\ trace' = Append(trace, [key |-> <<"WORKFLOW_ID">>,
                               value |-> local.workflow_id.val,
                               existed |-> exists, pre |-> content])
    /\ writes' = writes + 1
    /\ local' = [local EXCEPT !.save = "ok"]
    /\ Exit(0)
    /\ UNCHANGED <<store0, shell, environ, args, status, out, remote>>

\* Lines 151 and 155 to 159: save_to_env raises, before it opened the file
\* for writing or after (the file is then there and cut to nothing).
SaveRaises(opened) ==
    /\ pc = "save"
    /\ IF opened
       THEN /\ content' = <<>>
            /\ exists' = TRUE
            /\ writes' = writes + 1
       ELSE UNCHANGED <<content, exists, writes>>
    /\ local' = [local EXCEPT !.save = "failed"]
    /\ Exit(1)
    /\ UNCHANGED <<store0, trace, shell, environ, args, status, out, remote>>

NextCreate ==
    \/ LoadAndResolve
    \/ Validate
    \/ ParseSample
    \/ InitClient
    \/ \E w \in WorkflowIds : CreateReturns(w)
    \/ \E serverDid \in BOOLEAN : CreateRaises(serverDid)
    \/ SaveReturns
    \/ \E opened \in BOOLEAN : SaveRaises(opened)

SpecCreate == InitCreate /\ [][NextCreate]_vars

(***************************************************************************)
(* Claims about create_workflow.py                                          *)
(***************************************************************************)
\* The first non-empty value among a flag, the shell's variable and the
\* store's line, or Unset when none of them is non-empty.
FirstNonEmpty(flag, key) ==
    IF Truthy(flag) THEN flag
    ELSE IF Truthy(shell[key]) THEN shell[key]
    ELSE IF Truthy(dotenv_get(store0.exists, store0.content, <<key>>))
         THEN dotenv_get(store0.exists, store0.content, <<key>>)
    ELSE Unset

\* A resolved setting is the value v, or is missing when v is Unset.
ResolvesTo(setting, v) ==
    IF Truthy(v) THEN setting = v ELSE ~Truthy(setting)

\* C3: each setting resolves to the first non-empty string among the flag,
\* the process environment and the store, in that order: an empty flag falls
\* through, and the setting is present whenever one of the three is non-empty
\* (so also when the environment holds the empty string and the store a value).
C3_LayeredResolution ==
    pc = "validate" =>
        /\ ResolvesTo(local.name, FirstNonEmpty(args.name, "WORKFLOW_NAME"))
        /\ ResolvesTo(local.instructions,
                      FirstNonEmpty(args.instructions, "WORKFLOW_INSTRUCTIONS"))
        /\ ResolvesTo(local.sample_data_str,
                      FirstNonEmpty(args.sample_data, "WORKFLOW_SAMPLE_DATA"))
        /\ ResolvesTo(local.provider_id,
                      FirstNonEmpty(args.provider_id, "FHIR_PROVIDER_ID"))

StoreUntouched == exists = store0.exists /\ content = store0.content

AllResolved ==
    /\ Truthy(local.name)
    /\ Truthy(local.instructions)
    /\ Truthy(local.sample_data_str)
    /\ Truthy(local.provider_id)

\* C10: in one run of create_workflow.py the remote create call is made only
\* once name, instructions, sample data and provider id are non-empty and the
\* sample data is JSON, and a run that fails on one of these exits non-zero
\* with no remote call and the store untouched; the store is written at most
\* once, and only after the remote call returned a workflow; when the remote
\* call raises, the store is untouched and the exit code non-zero; when the
\* store write raises after the remote call returned, the exit code is
\* non-zero and the workflow created remotely stays created.
C10_CreateOrder ==
    /\ remote.calls <= 1
    /\ writes <= 1
    /\ (remote.calls > 0 \/ pc \in {"create", "save"}) =>
          AllResolved /\ IsJson(local.sample_data_str.val)
    /\ (pc = "exited"
        /\ ~(AllResolved /\ IsJson(local.sample_data_str.val))) =>
          /\ exitCode = 1
          /\ remote.calls = 0
          /\ writes = 0
          /\ StoreUntouched
    /\ (writes > 0 \/ ~StoreUntouched \/ pc = "save") =>
          /\ remote.returned = "ok"
          /\ remote.created = 1
          /\ Truthy(local.workflow_id)
    /\ remote.returned # "ok" => writes = 0 /\ StoreUntouched
    /\ remote.returned = "error" => pc = "exited" /\ exitCode = 1
    /\ local.save = "failed" =>
          /\ pc = "exited"
          /\ exitCode = 1
          /\ remote.returned = "ok"
          /\ remote.created = 1
    /\ local.save = "ok" =>
          /\ pc = "exited"
          /\ exitCode = 0
          /\ writes = 1
          /\ content = save_to_env(store0.exists, store0.content,
                                   <<"WORKFLOW_ID">>, local.workflow_id.val)
    /\ (pc = "exited" /\ exitCode = 0) => local.save = "ok"

\* C10's case: the remote call returned a workflow and the store write then
\* failed, leaving the run at exit code 1 with the workflow created.
C10_Witness ==
    /\ pc = "exited"
    /\ exitCode = 1
    /\ local.save = "failed"
    /\ remote.returned = "ok"
    /\ remote.created = 1
    /\ store0.exists
    /\ writes = 1

====
